---- MODULE Spec2Model ----
(***************************************************************************)
(* Model of code-grading-system. The main specification is the             *)
(* repository-analysis stage (src/code_grading/agents/agent2):             *)
(* Agent2._process_parallel submits one RepoWorker.process call per        *)
(* repository to a ThreadPoolExecutor, each call clones the repository     *)
(* into a mkdtemp directory, analyses it, grades it, removes the           *)
(* directory, and the main thread collects the results with as_completed.  *)
(* Further specifications take calculate_grade, the loop of                *)
(* analyze_repository, ExcelHandler.atomic_write and Pipeline.run_all with *)
(* the files the four agents hand to one another, each on its own.         *)
(*                                                                         *)
(* Grades are kept in hundredths (33.33 is 3333).                          *)
(***************************************************************************)
EXTENDS Integers, Sequences, FiniteSets, Bags, TLC

\* ------------------------------------------------------------------ bounds
MaxJobs == 2
MaxWorkers == 2
MaxTotal == 40
MaxFiles == 3
MaxRows == 2
MaxIDs == 2
MaxRuns == 2

\* ------------------------------------------------------- program constants
LIMIT == 150

NoDir == 0
\* A directory entry: absent, or a directory holding source files.
Absent == [exists |-> FALSE, files |-> <<>>]
Dir(files) == [exists |-> TRUE, files |-> files]
NoResult == [ID |-> 0, grade |-> 0, Status |-> "none"]
NotReturned == <<>>

\* ------------------------------------------------ the remote repositories
\* A source file as count_code_lines sees it. Its text, by kind of line:
\*   code     lines on which a node of the syntax tree other than a
\*            documentation-string statement starts
\*   doc      lines wholly occupied by a one-line documentation-string
\*            statement (an Expr node and its Constant start there)
\*   comment  comment-only lines
\*   blank    lines whose stripped text is empty
\* and what happens when it is read:
\*   "ok"            ast.parse succeeds
\*   "syntax_error"  ast.parse raises SyntaxError
\*   "reopen_error"  ast.parse raises SyntaxError and the second open(), in
\*                   _count_lines_simple, raises OSError
\*   "parser_error"  ast.parse raises something else (RecursionError or
\*                   MemoryError on deeply nested source, ValueError on NUL
\*                   bytes before CPython 3.11.4)
\*   "os_error"      open() raises OSError (unreadable, or a directory *.py)
Source(read, code, doc, comment, blank) ==
    [read |-> read, code |-> code, doc |-> doc, comment |-> comment, blank |-> blank]

\* A file of n lines of code and nothing else.
File(read, n) == Source(read, n, 0, 0, 0)

\* What `git clone --depth 1 <url>` finds behind each URL.
URLs == {"mixed", "empty", "blank", "bad_file", "not_found", "slow"}

Remote(url) ==
    CASE url = "mixed"     -> [fetch |-> "ok", files |-> <<File("ok", 100), File("ok", 200)>>]
      [] url = "empty"     -> [fetch |-> "ok", files |-> <<>>]
      [] url = "blank"     -> [fetch |-> "ok", files |-> <<File("ok", 0), Source("ok", 0, 0, 2, 1)>>]
      [] url = "bad_file"  -> [fetch |-> "ok", files |-> <<File("ok", 100), File("os_error", 0)>>]
      [] url = "not_found" -> [fetch |-> "nonzero", files |-> <<>>]
      [] url = "slow"      -> [fetch |-> "timeout", files |-> <<>>]

\* ------------------------------------------------------------ CodeAnalyzer
\* The body of the try block of count_code_lines: the number of distinct
\* node.lineno values over ast.walk(tree). Statements and expressions carry
\* a lineno, the Expr node of a documentation string among them; comments
\* and blank lines leave no node.
linenos(f) == f.code + f.doc

\* _count_lines_simple without its except clause: a failed open() raises.
count_lines_simple_raising(f) ==
    IF f.read \in {"os_error", "reopen_error"}
    THEN [raised |-> TRUE, count |-> 0]
    ELSE [raised |-> FALSE, count |-> f.code + f.doc + f.comment]

\* _count_lines_simple: the lines with non-empty stripped text, or 0 when
\* opening or reading the file raises (except Exception: return 0).
count_lines_simple(f) ==
    IF f.read \in {"os_error", "reopen_error"}
    THEN [raised |-> FALSE, count |-> 0]
    ELSE [raised |-> FALSE, count |-> f.code + f.doc + f.comment]

\* except Exception instead of except (SyntaxError, UnicodeDecodeError).
count_code_lines_catch_all(f) ==
    IF f.read = "ok"
    THEN [raised |-> FALSE, count |-> linenos(f)]
    ELSE count_lines_simple(f)

\* count_code_lines: the number of code lines, or the exception that the
\* except (SyntaxError, UnicodeDecodeError) clause lets through.
count_code_lines(f) ==
    CASE f.read = "ok" -> [raised |-> FALSE, count |-> linenos(f)]
      [] f.read \in {"syntax_error", "reopen_error"} -> count_lines_simple(f)
      [] OTHER -> [raised |-> TRUE, count |-> 0]

NoMetrics == [raised |-> FALSE, total_lines |-> 0, lines_within_limit |-> 0,
              files_over_limit |-> 0, total_files |-> 0]

\* total_lines += line_count moved into the else branch.
accumulate_total_in_else(acc, line_count) ==
    [acc EXCEPT
       !.total_lines = IF line_count <= LIMIT THEN @ ELSE @ + line_count,
       !.lines_within_limit = IF line_count <= LIMIT THEN @ + line_count ELSE @,
       !.files_over_limit = IF line_count <= LIMIT THEN @ ELSE @ + 1]

\* line_count < 150 instead of line_count <= 150.
accumulate_strict(acc, line_count) ==
    [acc EXCEPT
       !.total_lines = @ + line_count,
       !.lines_within_limit = IF line_count < LIMIT THEN @ + line_count ELSE @,
       !.files_over_limit = IF line_count < LIMIT THEN @ ELSE @ + 1]

\* lines_within_limit += line_count outside the if.
accumulate_always_within(acc, line_count) ==
    [acc EXCEPT
       !.total_lines = @ + line_count,
       !.lines_within_limit = @ + line_count,
       !.files_over_limit = IF line_count <= LIMIT THEN @ ELSE @ + 1]

\* One turn of the for loop of analyze_repository, after count_code_lines.
accumulate(acc, line_count) ==
    [acc EXCEPT
       !.total_lines = @ + line_count,
       !.lines_within_limit = IF line_count <= LIMIT THEN @ + line_count ELSE @,
       !.files_over_limit = IF line_count <= LIMIT THEN @ ELSE @ + 1]

\* The for loop of analyze_repository over files[i..], from accumulator acc.
RECURSIVE analyze_from(_, _, _)
analyze_from(files, i, acc) ==
    IF i > Len(files)
    THEN [acc EXCEPT !.total_files = Len(files)]
    ELSE LET c == count_code_lines(files[i]) IN
         IF c.raised
         THEN [acc EXCEPT !.raised = TRUE]
         ELSE analyze_from(files, i + 1, accumulate(acc, c.count))

analyze_repository(files) == analyze_from(files, 1, NoMetrics)

\* round(x, 2) of x = num / den * 100, in hundredths: the nearest hundredth,
\* an exact tie going to the even one. Python rounds the binary64 value
\* half-to-even; for every total_lines below 160, and for the repositories
\* of Remote, it returns what this exact computation returns (from
\* total_lines = 160 on, the binary64 error decides some exact ties the
\* other way, e.g. 23/160).
RoundHundredths(num, den) ==
    LET q == (10000 * num) \div den
        r == (10000 * num) % den
    IN  IF 2 * r > den \/ (2 * r = den /\ q % 2 = 1) THEN q + 1 ELSE q

\* calculate_grade cutting the quotient off instead of rounding it.
calculate_grade_truncating(metrics) ==
    IF metrics.total_lines = 0
    THEN 0
    ELSE (10000 * metrics.lines_within_limit) \div metrics.total_lines

\* calculate_grade with the operands of the ratio exchanged.
calculate_grade_inverted(metrics) ==
    IF metrics.lines_within_limit = 0
    THEN 0
    ELSE RoundHundredths(metrics.total_lines, metrics.lines_within_limit)

calculate_grade(metrics) ==
    IF metrics.total_lines = 0
    THEN 0
    ELSE RoundHundredths(metrics.lines_within_limit, metrics.total_lines)

\* ------------------------------------------------------------------- state
VARIABLES
    max_workers,  \* Agent2.max_workers = config.worker_threads
    repos,        \* the job list handed to _process_parallel: records ID, Repo
    mainpc,       \* main thread: "submit", "collect", "returned"
    submitted,    \* how many repos the submit loop has handed to the executor
    pc,           \* per job: "new", "queued", "clone", "analyze", "finally", "done"
    repo_dir,     \* per job: RepoWorker.process's local repo_dir (NoDir is None)
    created,      \* per job: the directory mkdtemp made for it (NoDir: none yet)
    rm_failed,    \* per job: rmtree failed and ignore_errors swallowed it
    fs,           \* the filesystem: directory name -> Absent or Dir(its source files)
    fut,          \* per job: what the future holds ([exc, value])
    collected,    \* the futures as_completed has yielded so far
    results,      \* the local list results of _process_parallel
    returned,     \* what the caller of _process_parallel has received (nothing before it returns)
    analysis,     \* calculate_grade's argument (grade specification)
    grade_out,    \* calculate_grade's return value (grade specification)
    loop,         \* analyze_repository's for loop (analysis specification)
    git_installed, \* whether the git executable can be started at all
    aw,           \* ExcelHandler.atomic_write: its call and the two files (write specification)
    pipe          \* Pipeline.run_all, the agents' files and drafts (pipeline specification)

poolvars == <<max_workers, repos, mainpc, submitted, pc, repo_dir, created,
              rm_failed, fs, fut, collected, results, returned, git_installed>>
gradevars == <<analysis, grade_out>>
filevars == <<aw, pipe>>
vars == <<max_workers, repos, mainpc, submitted, pc, repo_dir, created,
          rm_failed, fs, fut, collected, results, returned, analysis, grade_out,
          loop, git_installed, aw, pipe>>

Jobs == 1..Len(repos)
Dirs == 1..MaxJobs

\* IDs as Agent 1 numbers its rows: distinct, one per record.
JobLists ==
    UNION {{[j \in 1..n |-> [ID |-> j, Repo |-> u[j]]] : u \in [1..n -> URLs]} : n \in 1..MaxJobs}

NoFuture == [exc |-> FALSE, value |-> NoResult]
NoGrade == 0 - 1

PoolInit ==
    /\ max_workers \in 1..MaxWorkers
    /\ repos \in JobLists
    /\ mainpc = "submit"
    /\ submitted = 0
    /\ pc = [j \in Jobs |-> "new"]
    /\ repo_dir = [j \in Jobs |-> NoDir]
    /\ created = [j \in Jobs |-> NoDir]
    /\ rm_failed = [j \in Jobs |-> FALSE]
    /\ fs = [d \in Dirs |-> Absent]
    /\ fut = [j \in Jobs |-> NoFuture]
    /\ collected = {}
    /\ results = <<>>
    /\ returned = NotReturned
    /\ git_installed \in BOOLEAN

\* A file of tables: absent, or holding the rows of a table.
NoFile == [exists |-> FALSE, rows |-> <<>>]
Workbook(rows) == [exists |-> TRUE, rows |-> rows]

\* No call of atomic_write under way.
NoWrite == [at |-> "idle", exc |-> "none", df |-> <<>>, old |-> NoFile, dest |-> NoFile,
            tmp |-> NoFile]

\* No pipeline built yet and no data file written.
NoPipe == [at |-> "idle", k |-> 1, started |-> <<>>, failed |-> 0, runs |-> 0,
           excel1 |-> [id \in 1..MaxIDs |-> "none"],
           excel2 |-> [id \in 1..MaxIDs |-> "none"],
           excel3 |-> [id \in 1..MaxIDs |-> "none"],
           drafts |-> {}]

\* The for loop before analyze_repository is called.
NoLoop == [files |-> <<>>, at |-> "idle", i |-> 1, acc |-> NoMetrics]

Init ==
    /\ PoolInit
    /\ analysis = NoMetrics
    /\ grade_out = NoGrade
    /\ loop = NoLoop
    /\ aw = NoWrite
    /\ pipe = NoPipe

\* --------------------------------------------------------- RepoWorker.process
ReadyResult(id, grade) == [ID |-> id, grade |-> grade, Status |-> "ready"]

\* process returning None on failure, as its docstring has it.
ErrorResult_none(id) == NoResult

\* The except branch of process.
ErrorResult(id) == [ID |-> id, grade |-> 0, Status |-> "error"]

\* The threads of the executor that are inside a process call.
Active == {j \in Jobs : pc[j] \in {"clone", "analyze", "finally"}}

\* The size the executor is built with.
pool_size_per_repo == Len(repos)

pool_size == max_workers

\* The scratch root the pool hands to each RepoWorker (Config.temp_dir,
\* ./data/temp unless TEMP_DIR says otherwise), and the directory mkdtemp
\* uses when it is given no dir= argument (TMPDIR, else /tmp).
temp_dir == "config.temp_dir"
gettempdir == "tempfile.gettempdir()"

\* Where clone_repo makes the directory it clones into: process calls
\* clone_repo(repo_url) with no target_dir, so mkdtemp(prefix="repo_") it is.
scratch_root(d) == gettempdir

\* A clone directory named after the slot of the worker thread.
mkdtemp_per_worker == {1 + Cardinality(Active)}

\* One fixed clone directory instead of a fresh one per call.
mkdtemp_fixed == {1}

\* tempfile.mkdtemp: a new directory under a random name no earlier call was
\* given (which of the unused names it is makes no difference: the first).
mkdtemp ==
    {d \in Dirs : /\ \A k \in Jobs : created[k] # d
                  /\ \A e \in Dirs : (\A k \in Jobs : created[k] # e) => d <= e}

\* How subprocess.run(["git", "clone", ...], check=True, timeout=300) ends:
\* FileNotFoundError when there is no git to start, else as the remote has it.
fetch_outcome(url) == IF git_installed THEN Remote(url).fetch ELSE "no_git"

\* What rglob finds under a directory: nothing when it is gone.
find_python_files(d) == IF fs[d].exists THEN fs[d].files ELSE <<>>

\* A free executor thread takes the oldest queued work item; process starts,
\* clone_repo makes its directory and launches git.
StartJob(j) ==
    /\ pc[j] = "queued"
    /\ \A k \in Jobs : pc[k] = "queued" => j <= k
    /\ Cardinality(Active) < pool_size
    /\ \E d \in mkdtemp :
         /\ fs' = [fs EXCEPT ![d] = Dir(<<>>)]
         /\ created' = [created EXCEPT ![j] = d]
    /\ pc' = [pc EXCEPT ![j] = "clone"]
    /\ UNCHANGED <<max_workers, repos, mainpc, submitted, repo_dir, rm_failed,
                   fut, collected, results, returned, gradevars, loop, git_installed, filevars>>

\* git exits 0: clone_repo returns the directory, now holding the checkout.
CloneOk(j) ==
    /\ pc[j] = "clone"
    /\ fetch_outcome(repos[j].Repo) = "ok"
    /\ fs' = [fs EXCEPT ![created[j]] = Dir(Remote(repos[j].Repo).files)]
    /\ repo_dir' = [repo_dir EXCEPT ![j] = created[j]]
    /\ pc' = [pc EXCEPT ![j] = "analyze"]
    /\ UNCHANGED <<max_workers, repos, mainpc, submitted, created, rm_failed,
                   fut, collected, results, returned, gradevars, loop, git_installed, filevars>>

\* subprocess.run without timeout=: a clone that hangs is never cut off.
CloneFail_no_timeout(j) ==
    /\ pc[j] = "clone"
    /\ fetch_outcome(repos[j].Repo) \in {"nonzero", "no_git"}
    /\ fut' = [fut EXCEPT ![j] = [exc |-> FALSE, value |-> ErrorResult(repos[j].ID)]]
    /\ pc' = [pc EXCEPT ![j] = "finally"]
    /\ UNCHANGED <<max_workers, repos, mainpc, submitted, repo_dir, created,
                   rm_failed, fs, collected, results, returned, gradevars, loop, git_installed, filevars>>

\* A failed clone put back on the queue for another attempt.
CloneFail_retry(j) ==
    /\ pc[j] = "clone"
    /\ fetch_outcome(repos[j].Repo) \in {"nonzero", "timeout", "no_git"}
    /\ pc' = [pc EXCEPT ![j] = "queued"]
    /\ UNCHANGED <<max_workers, repos, mainpc, submitted, repo_dir, created,
                   rm_failed, fs, fut, collected, results, returned, gradevars, loop, git_installed, filevars>>

\* subprocess.run without check=True: a failed clone goes on to the analysis.
CloneFail_unchecked(j) ==
    /\ pc[j] = "clone"
    /\ fetch_outcome(repos[j].Repo) \in {"nonzero", "timeout", "no_git"}
    /\ repo_dir' = [repo_dir EXCEPT ![j] = created[j]]
    /\ pc' = [pc EXCEPT ![j] = "analyze"]
    /\ UNCHANGED <<max_workers, repos, mainpc, submitted, created, rm_failed,
                   fs, fut, collected, results, returned, gradevars, loop, git_installed, filevars>>

\* git exits non-zero (CalledProcessError), runs into the 300 s timeout
\* (TimeoutExpired) or cannot be started (FileNotFoundError): clone_repo
\* raises, repo_dir stays None, the except branch of process builds the
\* error result.
CloneFail(j) ==
    /\ pc[j] = "clone"
    /\ fetch_outcome(repos[j].Repo) \in {"nonzero", "timeout", "no_git"}
    /\ fut' = [fut EXCEPT ![j] = [exc |-> FALSE, value |-> ErrorResult(repos[j].ID)]]
    /\ pc' = [pc EXCEPT ![j] = "finally"]
    /\ UNCHANGED <<max_workers, repos, mainpc, submitted, repo_dir, created,
                   rm_failed, fs, collected, results, returned, gradevars, loop, git_installed, filevars>>

\* The worker thread appending its result to the list of _process_parallel
\* itself, besides returning it.
Analyze_appending(j) ==
    /\ pc[j] = "analyze"
    /\ LET a == analyze_repository(find_python_files(repo_dir[j]))
           r == IF a.raised
                THEN ErrorResult(repos[j].ID)
                ELSE ReadyResult(repos[j].ID, calculate_grade(a))
       IN  /\ fut' = [fut EXCEPT ![j] = [exc |-> FALSE, value |-> r]]
           /\ results' = Append(results, r)
    /\ pc' = [pc EXCEPT ![j] = "finally"]
    /\ UNCHANGED <<max_workers, repos, mainpc, submitted, repo_dir, created,
                   rm_failed, fs, collected, returned, gradevars, loop, git_installed, filevars>>

\* calculate_grade without its total_lines == 0 guard: the division raises
\* and the except branch answers.
Analyze_zero_division(j) ==
    /\ pc[j] = "analyze"
    /\ LET a == analyze_repository(find_python_files(repo_dir[j]))
           r == IF a.raised \/ a.total_lines = 0
                THEN ErrorResult(repos[j].ID)
                ELSE ReadyResult(repos[j].ID, calculate_grade(a))
       IN  fut' = [fut EXCEPT ![j] = [exc |-> FALSE, value |-> r]]
    /\ pc' = [pc EXCEPT ![j] = "finally"]
    /\ UNCHANGED <<max_workers, repos, mainpc, submitted, repo_dir, created,
                   rm_failed, fs, collected, results, returned, gradevars, loop, git_installed, filevars>>

\* analyze_repository and calculate_grade, or the except branch when the
\* analysis raises.
Analyze(j) ==
    /\ pc[j] = "analyze"
    /\ LET a == analyze_repository(find_python_files(repo_dir[j]))
           r == IF a.raised
                THEN ErrorResult(repos[j].ID)
                ELSE ReadyResult(repos[j].ID, calculate_grade(a))
       IN  fut' = [fut EXCEPT ![j] = [exc |-> FALSE, value |-> r]]
    /\ pc' = [pc EXCEPT ![j] = "finally"]
    /\ UNCHANGED <<max_workers, repos, mainpc, submitted, repo_dir, created,
                   rm_failed, fs, collected, results, returned, gradevars, loop, git_installed, filevars>>

\* The cleanup removing the whole scratch root instead of repo_dir.
Finally_rm_root(j) ==
    /\ pc[j] = "finally"
    /\ IF repo_dir[j] # NoDir
       THEN fs' = [d \in Dirs |-> Absent]
       ELSE UNCHANGED fs
    /\ pc' = [pc EXCEPT ![j] = "done"]
    /\ UNCHANGED <<max_workers, repos, mainpc, submitted, repo_dir, created,
                   rm_failed, fut, collected, results, returned, gradevars, loop,
                   git_installed, filevars>>

\* The cleanup at the end of the try body instead of in a finally block.
Finally_success_only(j) ==
    /\ pc[j] = "finally"
    /\ IF repo_dir[j] # NoDir /\ fut[j].value.Status = "ready"
       THEN fs' = [fs EXCEPT ![repo_dir[j]] = Absent]
       ELSE UNCHANGED fs
    /\ pc' = [pc EXCEPT ![j] = "done"]
    /\ UNCHANGED <<max_workers, repos, mainpc, submitted, repo_dir, created,
                   rm_failed, fut, collected, results, returned, gradevars, loop,
                   git_installed, filevars>>

\* rmtree without ignore_errors=True: a failed removal raises out of the
\* finally block and replaces the value process was returning.
Finally_raising(j) ==
    /\ pc[j] = "finally"
    /\ IF repo_dir[j] # NoDir /\ fs[repo_dir[j]] # Absent
       THEN \E removed \in BOOLEAN :
              /\ fs' = IF removed THEN [fs EXCEPT ![repo_dir[j]] = Absent] ELSE fs
              /\ rm_failed' = [rm_failed EXCEPT ![j] = ~removed]
              /\ fut' = IF removed THEN fut
                        ELSE [fut EXCEPT ![j] = [exc |-> TRUE, value |-> NoResult]]
       ELSE UNCHANGED <<fs, rm_failed, fut>>
    /\ pc' = [pc EXCEPT ![j] = "done"]
    /\ UNCHANGED <<max_workers, repos, mainpc, submitted, repo_dir, created,
                   collected, results, returned, gradevars, loop, git_installed, filevars>>

\* The finally block: cleanup_repo(repo_dir) when repo_dir is set; rmtree
\* removes the directory or fails and says nothing (ignore_errors=True).
\* Then process returns and the future is done.
Finally(j) ==
    /\ pc[j] = "finally"
    /\ IF repo_dir[j] # NoDir /\ fs[repo_dir[j]] # Absent
       THEN \E removed \in BOOLEAN :
              /\ fs' = IF removed THEN [fs EXCEPT ![repo_dir[j]] = Absent] ELSE fs
              /\ rm_failed' = [rm_failed EXCEPT ![j] = ~removed]
       ELSE UNCHANGED <<fs, rm_failed>>
    /\ pc' = [pc EXCEPT ![j] = "done"]
    /\ UNCHANGED <<max_workers, repos, mainpc, submitted, repo_dir, created,
                   fut, collected, results, returned, gradevars, loop, git_installed, filevars>>

\* ------------------------------------------------- Agent2._process_parallel
\* One turn of the submit loop: a RepoWorker and a future for the next repo.
Submit ==
    /\ mainpc = "submit"
    /\ submitted < Len(repos)
    /\ submitted' = submitted + 1
    /\ pc' = [pc EXCEPT ![submitted + 1] = "queued"]
    /\ UNCHANGED <<max_workers, repos, mainpc, repo_dir, created, rm_failed, fs,
                   fut, collected, results, returned, gradevars, loop, git_installed, filevars>>

\* The submit loop ends and as_completed(futures) begins.
AsCompleted ==
    /\ mainpc = "submit"
    /\ submitted = Len(repos)
    /\ mainpc' = "collect"
    /\ UNCHANGED <<max_workers, repos, submitted, pc, repo_dir, created, rm_failed,
                   fs, fut, collected, results, returned, gradevars, loop, git_installed, filevars>>

\* The body of the as_completed loop for one finished future.
collect_one(j) ==
    IF fut[j].exc
    THEN Append(results, ErrorResult(repos[j].ID))
    ELSE IF fut[j].value # NoResult
         THEN Append(results, fut[j].value)
         ELSE results

Collect(j) ==
    /\ mainpc = "collect"
    /\ pc[j] = "done"
    /\ j \notin collected
    /\ collected' = collected \cup {j}
    /\ results' = collect_one(j)
    /\ UNCHANGED <<max_workers, repos, mainpc, submitted, pc, repo_dir, created,
                   rm_failed, fs, fut, returned, gradevars, loop, git_installed, filevars>>

\* Returning from inside the as_completed loop, after the first future.
Return_early ==
    /\ mainpc = "collect"
    /\ collected # {}
    /\ mainpc' = "returned"
    /\ returned' = results
    /\ UNCHANGED <<max_workers, repos, submitted, pc, repo_dir, created, rm_failed,
                   fs, fut, collected, results, gradevars, loop, git_installed, filevars>>

\* as_completed is exhausted, the with block shuts the executor down, and
\* results is returned.
Return ==
    /\ mainpc = "collect"
    /\ collected = Jobs
    /\ mainpc' = "returned"
    /\ returned' = results
    /\ UNCHANGED <<max_workers, repos, submitted, pc, repo_dir, created, rm_failed,
                   fs, fut, collected, results, gradevars, loop, git_installed, filevars>>

Next ==
    \/ Submit
    \/ AsCompleted
    \/ \E j \in Jobs : StartJob(j)
    \/ \E j \in Jobs : CloneOk(j)
    \/ \E j \in Jobs : CloneFail(j)
    \/ \E j \in Jobs : Analyze(j)
    \/ \E j \in Jobs : Finally(j)
    \/ \E j \in Jobs : Collect(j)
    \/ Return

Spec == Init /\ [][Next]_vars

\* The executor's threads run whenever they can, git ends or is cut off by
\* its timeout, and the main thread keeps going.
FairSpec == Spec /\ WF_vars(Next)

\* ------------------------------------------------ calculate_grade on its own
\* An idle pool; calculate_grade is handed any metrics with
\* 0 <= lines_within_limit <= total_lines <= MaxTotal.
MetricsInputs ==
    {[raised |-> FALSE, total_lines |-> t, lines_within_limit |-> w,
      files_over_limit |-> IF w < t THEN 1 ELSE 0,
      total_files |-> IF w < t THEN 2 ELSE 1] : t \in 0..MaxTotal, w \in 0..MaxTotal}

GradeInit ==
    /\ max_workers = 1
    /\ repos = <<>>
    /\ mainpc = "returned"
    /\ submitted = 0
    /\ pc = <<>>
    /\ repo_dir = <<>>
    /\ created = <<>>
    /\ rm_failed = <<>>
    /\ fs = [d \in Dirs |-> Absent]
    /\ fut = <<>>
    /\ collected = {}
    /\ results = <<>>
    /\ returned = <<>>
    /\ analysis \in {m \in MetricsInputs : m.lines_within_limit <= m.total_lines}
    /\ grade_out = NoGrade
    /\ loop = NoLoop
    /\ aw = NoWrite
    /\ pipe = NoPipe
    /\ git_installed = TRUE

ApplyGrade ==
    /\ grade_out = NoGrade
    /\ grade_out' = calculate_grade(analysis)
    /\ UNCHANGED <<poolvars, analysis, loop, filevars>>

GradeNext == ApplyGrade

SpecGrade == GradeInit /\ [][GradeNext]_vars

\* ------------------------------------------- analyze_repository on its own
\* The files rglob may hand to the loop, by what count_code_lines makes of
\* each: parsed files at and around the limit, files that fail to parse, a
\* file that cannot be opened, a file with a documentation string, a comment
\* and a blank line, a file that fails to parse and then cannot be reopened.
FileInputs ==
    {File("ok", 0), File("ok", 100), File("ok", LIMIT), File("ok", LIMIT + 1),
     File("ok", 200), File("syntax_error", 3), File("syntax_error", LIMIT + 1),
     File("parser_error", 3), File("os_error", 0),
     Source("ok", 2, 1, 1, 1), Source("reopen_error", 2, 1, 0, 2)}

FileSeqs == UNION {[1..n -> FileInputs] : n \in 0..MaxFiles}

\* An idle pool; analyze_repository is about to loop over python_files.
AnalyzeInit ==
    /\ max_workers = 1
    /\ repos = <<>>
    /\ mainpc = "returned"
    /\ submitted = 0
    /\ pc = <<>>
    /\ repo_dir = <<>>
    /\ created = <<>>
    /\ rm_failed = <<>>
    /\ fs = [d \in Dirs |-> Absent]
    /\ fut = <<>>
    /\ collected = {}
    /\ results = <<>>
    /\ returned = <<>>
    /\ git_installed = TRUE
    /\ analysis = NoMetrics
    /\ grade_out = NoGrade
    /\ aw = NoWrite
    /\ pipe = NoPipe
    /\ \E files \in FileSeqs :
         loop = [files |-> files, at |-> "loop", i |-> 1, acc |-> NoMetrics]

\* One turn of the loop: count_code_lines returns and the sums are updated.
LoopStep ==
    /\ loop.at = "loop"
    /\ loop.i <= Len(loop.files)
    /\ LET c == count_code_lines(loop.files[loop.i]) IN
         /\ ~c.raised
         /\ loop' = [loop EXCEPT !.i = @ + 1, !.acc = accumulate(@, c.count)]
    /\ UNCHANGED <<poolvars, gradevars, filevars>>

\* count_code_lines raises: analyze_repository is left by the exception.
LoopRaise ==
    /\ loop.at = "loop"
    /\ loop.i <= Len(loop.files)
    /\ count_code_lines(loop.files[loop.i]).raised
    /\ loop' = [loop EXCEPT !.at = "raised"]
    /\ UNCHANGED <<poolvars, gradevars, filevars>>

\* The loop is over: the dict is built and returned.
LoopReturn ==
    /\ loop.at = "loop"
    /\ loop.i > Len(loop.files)
    /\ analysis' = [loop.acc EXCEPT !.total_files = Len(loop.files)]
    /\ loop' = [loop EXCEPT !.at = "returned"]
    /\ UNCHANGED <<poolvars, grade_out, filevars>>

\* process goes on to calculate_grade(analysis).
GradeAnalysis ==
    /\ loop.at = "returned"
    /\ grade_out = NoGrade
    /\ grade_out' = calculate_grade(analysis)
    /\ UNCHANGED <<poolvars, analysis, loop, filevars>>

AnalyzeNext ==
    \/ LoopStep
    \/ LoopRaise
    \/ LoopReturn
    \/ GradeAnalysis

SpecAnalyze == AnalyzeInit /\ [][AnalyzeNext]_vars

\* -------------------------------------------- ExcelHandler.atomic_write alone
\* The pool, the analysis and the grade at rest.
Idle ==
    /\ max_workers = 1
    /\ repos = <<>>
    /\ mainpc = "returned"
    /\ submitted = 0
    /\ pc = <<>>
    /\ repo_dir = <<>>
    /\ created = <<>>
    /\ rm_failed = <<>>
    /\ fs = [d \in Dirs |-> Absent]
    /\ fut = <<>>
    /\ collected = {}
    /\ results = <<>>
    /\ returned = <<>>
    /\ git_installed = TRUE
    /\ analysis = NoMetrics
    /\ grade_out = NoGrade
    /\ loop = NoLoop

\* The tables written: up to MaxRows rows, each one of two row values.
Tables == UNION {[1..n -> {"r1", "r2"}] : n \in 0..MaxRows}

\* atomic_write(df, file_path) is called; file_path is absent or holds a table.
WriteInit ==
    /\ Idle
    /\ pipe = NoPipe
    /\ \E df \in Tables, old \in {NoFile} \cup {Workbook(t) : t \in Tables} :
         aw = [at |-> "call", exc |-> "none", df |-> df, old |-> old, dest |-> old,
               tmp |-> NoFile]

\* NamedTemporaryFile(dir=file_path.parent, delete=False) makes an empty
\* temporary file beside the destination and closes it.
MakeTemp ==
    /\ aw.at = "call"
    /\ aw' = [aw EXCEPT !.at = "to_excel", !.tmp = Workbook(<<>>)]
    /\ UNCHANGED <<poolvars, gradevars, loop, pipe>>

\* mkdir or NamedTemporaryFile raises (the directory cannot be written):
\* this is before the try block, and no temporary file was made.
MakeTempRaises ==
    /\ aw.at = "call"
    /\ aw' = [aw EXCEPT !.at = "raised", !.exc = "NamedTemporaryFile"]
    /\ UNCHANGED <<poolvars, gradevars, loop, pipe>>

\* df.to_excel writing straight to file_path, with no temporary file.
ToExcel_in_place ==
    /\ aw.at = "to_excel"
    /\ Len(aw.tmp.rows) < Len(aw.df)
    /\ aw' = [aw EXCEPT !.tmp = Workbook(Append(aw.tmp.rows, aw.df[Len(aw.tmp.rows) + 1])),
                        !.dest = Workbook(Append(aw.tmp.rows, aw.df[Len(aw.tmp.rows) + 1]))]
    /\ UNCHANGED <<poolvars, gradevars, loop, pipe>>

\* df.to_excel(temp_path) under way: one more row is in the temporary file.
ToExcel ==
    /\ aw.at = "to_excel"
    /\ Len(aw.tmp.rows) < Len(aw.df)
    /\ aw' = [aw EXCEPT !.tmp = Workbook(Append(aw.tmp.rows, aw.df[Len(aw.tmp.rows) + 1]))]
    /\ UNCHANGED <<poolvars, gradevars, loop, pipe>>

\* df.to_excel raises with the temporary file partly written (disk full, a
\* value openpyxl cannot store): the except branch unlinks the temporary
\* file and raises again.
ToExcelRaises ==
    /\ aw.at = "to_excel"
    /\ aw' = [aw EXCEPT !.at = "raised", !.exc = "to_excel", !.tmp = NoFile]
    /\ UNCHANGED <<poolvars, gradevars, loop, pipe>>

\* to_excel is through; temp_path.replace(file_path) renames the temporary
\* file over the destination in one step and atomic_write returns.
Replace ==
    /\ aw.at = "to_excel"
    /\ aw.tmp = Workbook(aw.df)
    /\ aw' = [aw EXCEPT !.at = "returned", !.dest = aw.tmp, !.tmp = NoFile]
    /\ UNCHANGED <<poolvars, gradevars, loop, pipe>>

\* temp_path.replace raises (the destination is a directory, or locked):
\* nothing was renamed; the except branch unlinks the temporary file.
ReplaceRaises ==
    /\ aw.at = "to_excel"
    /\ aw.tmp = Workbook(aw.df)
    /\ aw' = [aw EXCEPT !.at = "raised", !.exc = "replace", !.tmp = NoFile]
    /\ UNCHANGED <<poolvars, gradevars, loop, pipe>>

WriteNext ==
    \/ MakeTemp
    \/ MakeTempRaises
    \/ ToExcel
    \/ ToExcelRaises
    \/ Replace
    \/ ReplaceRaises

SpecWrite == WriteInit /\ [][WriteNext]_vars

\* -------------------------------------------------------- Pipeline.run_all
\* The data files are tables keyed by ID: per ID the Status of its row, or
\* "none" when the file has no row for it (an absent file has no rows).
IDs == 1..MaxIDs
ReadyRows(table) == {id \in IDs : table[id] = "ready"}
AllRows(table) == {id \in IDs : table[id] # "none"}

\* pd.DataFrame(results) written over the file: the rows of results, no others.
Written(rows, status) == [id \in IDs |-> IF id \in rows THEN status[id] ELSE "none"]

PipeInit ==
    /\ Idle
    /\ aw = NoWrite
    /\ pipe = NoPipe

\* Pipeline(config) builds the four agents and run_all starts its loop. The
\* drafts counted are those of the run.
RunAll ==
    /\ pipe.at \in {"idle", "raised", "completed"}
    /\ pipe.runs < MaxRuns
    /\ pipe' = [pipe EXCEPT !.at = "loop", !.k = 1, !.started = <<>>, !.failed = 0,
                            !.runs = @ + 1, !.drafts = {}]
    /\ UNCHANGED <<poolvars, gradevars, loop, aw>>

\* for agent in self.agents: agent.run() is called.
StartAgent ==
    /\ pipe.at = "loop"
    /\ pipe.k <= 4
    /\ pipe' = [pipe EXCEPT !.at = "in_agent", !.started = Append(@, pipe.k)]
    /\ UNCHANGED <<poolvars, gradevars, loop, aw>>

\* run_all logging the exception and going on with the next agent.
AgentRaises_swallowed ==
    /\ pipe.at = "in_agent"
    /\ pipe' = [pipe EXCEPT !.at = "loop", !.k = @ + 1, !.failed = pipe.k]
    /\ UNCHANGED <<poolvars, gradevars, loop, aw>>

\* agent.run() raises (authentication, reading or writing a file, ...): the
\* agent logs and re-raises before it has written, run_all logs and
\* re-raises.
AgentRaises ==
    /\ pipe.at = "in_agent"
    /\ pipe' = [pipe EXCEPT !.at = "raised", !.failed = pipe.k]
    /\ UNCHANGED <<poolvars, gradevars, loop, aw>>

\* Agent1.run: the messages found are numbered from 1 (ID = idx), a message
\* with a repository URL is ready, one without is error; the file is
\* rewritten unless there is no message.
Agent1Run ==
    /\ pipe.at = "in_agent"
    /\ pipe.k = 1
    /\ \E n \in 0..MaxIDs : \E status \in [1..n -> {"ready", "error"}] :
         pipe' = [pipe EXCEPT !.at = "loop", !.k = 2,
                              !.excel1 = IF n = 0 THEN @ ELSE Written(1..n, status)]
    /\ UNCHANGED <<poolvars, gradevars, loop, aw>>

\* Agent2.run: the ready rows of Agent 1's file are the jobs; none: return.
\* Else _process_parallel yields one result per job, ready or error, and
\* _save_results rewrites the file with them.
Agent2Run ==
    /\ pipe.at = "in_agent"
    /\ pipe.k = 2
    /\ LET jobs == ReadyRows(pipe.excel1) IN
         \E status \in [jobs -> {"ready", "error"}] :
           pipe' = [pipe EXCEPT !.at = "loop", !.k = 3,
                                !.excel2 = IF jobs = {} THEN @ ELSE Written(jobs, status)]
    /\ UNCHANGED <<poolvars, gradevars, loop, aw>>

\* Agent3.run: the ready rows of Agent 2's file are the grades; none: return.
\* Else one feedback row each, ready or (generation failed) error, and the
\* file is rewritten with them.
Agent3Run ==
    /\ pipe.at = "in_agent"
    /\ pipe.k = 3
    /\ LET grades == ReadyRows(pipe.excel2) IN
         \E status \in [grades -> {"ready", "error"}] :
           pipe' = [pipe EXCEPT !.at = "loop", !.k = 4,
                                !.excel3 = IF grades = {} THEN @ ELSE Written(grades, status)]
    /\ UNCHANGED <<poolvars, gradevars, loop, aw>>

\* Agent4.run: the ready rows of Agent 3's file, inner-merged on ID with all
\* rows of Agent 1's and of Agent 2's file; a draft for each merged row,
\* save those whose creation fails (logged, skipped).
Agent4Run ==
    /\ pipe.at = "in_agent"
    /\ pipe.k = 4
    /\ LET feedback == ReadyRows(pipe.excel3)
           merged == (feedback \cap AllRows(pipe.excel1)) \cap AllRows(pipe.excel2)
       IN  \E made \in SUBSET merged :
             pipe' = [pipe EXCEPT !.at = "loop", !.k = 5, !.drafts = made]
    /\ UNCHANGED <<poolvars, gradevars, loop, aw>>

\* The loop is through: run_all logs and returns.
RunAllReturns ==
    /\ pipe.at = "loop"
    /\ pipe.k = 5
    /\ pipe' = [pipe EXCEPT !.at = "completed"]
    /\ UNCHANGED <<poolvars, gradevars, loop, aw>>

PipeNext ==
    \/ RunAll
    \/ StartAgent
    \/ AgentRaises
    \/ Agent1Run
    \/ Agent2Run
    \/ Agent3Run
    \/ Agent4Run
    \/ RunAllReturns

SpecPipeline == PipeInit /\ [][PipeNext]_vars

\* =================================================================== claims
PoolReturned == mainpc = "returned"

\* The IDs of a list of records, with their multiplicities.
IDBag(s) ==
    [id \in {s[i].ID : i \in DOMAIN s} |-> Cardinality({i \in DOMAIN s : s[i].ID = id})]

\* What the pipeline of one job yields when it is run alone, from nothing but
\* the job itself.
SoloResult(job) ==
    LET r == Remote(job.Repo)
        a == analyze_repository(r.files)
    IN  IF fetch_outcome(job.Repo) # "ok" \/ a.raised
        THEN [ID |-> job.ID, grade |-> 0, Status |-> "error"]
        ELSE [ID |-> job.ID, grade |-> calculate_grade(a), Status |-> "ready"]

Failing(job) == SoloResult(job).Status = "error"

\* The results the caller holds for a given ID.
ReturnedFor(id) == {i \in DOMAIN returned : returned[i].ID = id}

\* The state of a job in the words of the specification.
JobStateOf(p, f) ==
    CASE p \in {"new", "queued"} -> "Pending"
      [] p = "clone" -> "Fetching"
      [] p = "analyze" -> "Analyzing"
      [] OTHER -> IF f.value.Status = "ready" THEN "Ready" ELSE "Error"

JobState(j) == JobStateOf(pc[j], fut[j])

C3_ScratchRemoved ==
    PoolReturned =>
        \A j \in Jobs :
            (created[j] # NoDir /\ ~rm_failed[j]) => fs[created[j]] = Absent

\* C4: the caller holds results only after every job's future is done and
\* has been collected.
C4_SynchronousJoin ==
    /\ mainpc # "returned" => returned = NotReturned
    /\ mainpc = "returned" => \A j \in Jobs : pc[j] = "done" /\ j \in collected

C4_Witness ==
    /\ PoolReturned
    /\ Len(repos) = MaxJobs
    /\ \A j \in Jobs : pc[j] = "done"

\* C5: under fair scheduling every job ends in a terminal state and the pool
\* returns.
C5_EventuallyReturns ==
    <>(PoolReturned /\ \A j \in Jobs : pc[j] = "done")

C5_Witness ==
    /\ PoolReturned
    /\ \E j \in Jobs : Remote(repos[j].Repo).fetch = "timeout" /\ pc[j] = "done"
    /\ \E j \in Jobs : Remote(repos[j].Repo).fetch = "ok" /\ pc[j] = "done"

\* C6: at most max_workers jobs are inside their pipeline at once; the
\* others are pending or done.
C6_BoundedParallelism ==
    Cardinality(Active) <= max_workers

C6_Witness ==
    /\ Cardinality(Active) = max_workers
    /\ \E j \in Jobs : pc[j] = "queued"
    /\ mainpc = "collect"

\* C7: a job moves only Pending -> Fetching -> Analyzing -> {Ready, Error} or
\* Fetching -> Error; Ready and Error are never left and Fetching is entered
\* once only.
AllowedMoves ==
    {<<"Pending", "Fetching">>, <<"Fetching", "Analyzing">>, <<"Fetching", "Error">>,
     <<"Analyzing", "Ready">>, <<"Analyzing", "Error">>}

C7_StateMachine ==
    [][\A j \in Jobs :
         \/ JobStateOf(pc'[j], fut'[j]) = JobState(j)
         \/ <<JobState(j), JobStateOf(pc'[j], fut'[j])>> \in AllowedMoves]_vars

C7_Witness ==
    /\ \E j \in Jobs : JobState(j) = "Ready" /\ pc[j] = "done"
    /\ \E j \in Jobs : JobState(j) = "Error" /\ repo_dir[j] = NoDir /\ pc[j] = "done"

\* C8: a job whose clone fails or times out never analyses, ends as
\* {grade 0, error}, and the jobs beside it still get the grades of their
\* repositories.
FetchFails(j) == fetch_outcome(repos[j].Repo) \in {"nonzero", "timeout", "no_git"}

C9_GradeFormula ==
    grade_out # NoGrade =>
        IF analysis.total_lines = 0
        THEN grade_out = 0
        ELSE LET d == 10000 * analysis.lines_within_limit - grade_out * analysis.total_lines
             IN  /\ 2 * d <= analysis.total_lines
                 /\ 0 - 2 * d <= analysis.total_lines

C9_Witness ==
    /\ analysis.total_lines = 3
    /\ analysis.lines_within_limit = 2
    /\ grade_out = 6667

\* C10: every result a worker produces and the pool emits has a grade
\* between 0 and 10000 hundredths.
GradeOK(r) == r.grade \in 0..10000

C10_GradeInRange ==
    /\ \A j \in Jobs : GradeOK(fut[j].value)
    /\ \A i \in DOMAIN results : GradeOK(results[i])
    /\ \A i \in DOMAIN returned : GradeOK(returned[i])

C10_Witness ==
    /\ PoolReturned
    /\ \E i \in DOMAIN returned : returned[i].Status = "ready" /\ returned[i].grade = 3333
    /\ \E i \in DOMAIN returned : returned[i].Status = "error" /\ returned[i].grade = 0

\* ------------------------------------------------------------ C11 .. C20
\* The files the loop has been through, and their counts.
Visited == 1..(loop.i - 1)
CountOf(k) == count_code_lines(loop.files[k]).count

RECURSIVE SumCounts(_)
SumCounts(S) ==
    IF S = {} THEN 0
    ELSE LET k == CHOOSE x \in S : TRUE IN CountOf(k) + SumCounts(S \ {k})

\* C11: after every turn of the loop lines_within_limit <= total_lines, and
\* files_over_limit never exceeds the files gone through, hence total_files.
C11_LoopInvariant ==
    /\ loop.acc.lines_within_limit <= loop.acc.total_lines
    /\ loop.acc.files_over_limit <= loop.i - 1
    /\ loop.i - 1 <= Len(loop.files)
    /\ loop.at = "returned" =>
          /\ analysis.lines_within_limit <= analysis.total_lines
          /\ analysis.files_over_limit <= analysis.total_files

C11_Witness ==
    /\ loop.at = "loop"
    /\ loop.i = 3
    /\ loop.i <= Len(loop.files)
    /\ loop.acc.files_over_limit = 1
    /\ loop.acc.lines_within_limit = 100

\* C12: a file of exactly 150 code lines adds 150 to lines_within_limit and
\* leaves files_over_limit alone; one of 151 adds nothing to
\* lines_within_limit and adds one to files_over_limit.
C12_LimitInclusive ==
    [][(loop.at = "loop" /\ loop'.i = loop.i + 1) =>
         LET n == CountOf(loop.i) IN
           /\ n = 150 => /\ loop'.acc.lines_within_limit = loop.acc.lines_within_limit + 150
                         /\ loop'.acc.files_over_limit = loop.acc.files_over_limit
           /\ n = 151 => /\ loop'.acc.lines_within_limit = loop.acc.lines_within_limit
                         /\ loop'.acc.files_over_limit = loop.acc.files_over_limit + 1]_vars

C12_Witness ==
    /\ loop.i = 3
    /\ loop.files[1] = File("ok", 150)
    /\ loop.files[2] = File("ok", 151)
    /\ loop.acc.lines_within_limit = 150
    /\ loop.acc.files_over_limit = 1

\* C13: the dict analyze_repository returns holds the sum of all counts, the
\* sum of the counts <= 150, the number of counts > 150 and the number of
\* files, whatever the order of the files; counts 100 and 200 in either
\* order give 300, 100 and the grade 33.33.
C13_FoldIsSums ==
    loop.at = "returned" =>
        LET all == 1..Len(loop.files) IN
          /\ analysis.total_lines = SumCounts(all)
          /\ analysis.lines_within_limit = SumCounts({k \in all : CountOf(k) <= 150})
          /\ analysis.files_over_limit = Cardinality({k \in all : CountOf(k) > 150})
          /\ analysis.total_files = Len(loop.files)
          /\ ({loop.files[k] : k \in all} = {File("ok", 100), File("ok", 200)}
                  /\ Len(loop.files) = 2 /\ grade_out # NoGrade) =>
                 /\ analysis.total_lines = 300
                 /\ analysis.lines_within_limit = 100
                 /\ grade_out = 3333

C13_Witness ==
    /\ loop.at = "returned"
    /\ loop.files = <<File("ok", 200), File("ok", 100)>>
    /\ analysis.total_lines = 300
    /\ grade_out = 3333

\* What a pool of one worker does: process for job j, then j + 1, ..., each
\* through the filesystem disk the one before it left.
RECURSIVE serial_run(_, _, _)
serial_run(j, disk, out) ==
    IF j > Len(repos) THEN out
    ELSE LET url == repos[j].Repo
             cloned == [disk EXCEPT ![j] = Dir(Remote(url).files)]
             a == analyze_repository(cloned[j].files)
         IN  IF fetch_outcome(url) # "ok"
             THEN serial_run(j + 1, [disk EXCEPT ![j] = Dir(<<>>)],
                             Append(out, [grade |-> 0, Status |-> "error"]))
             ELSE serial_run(j + 1, [cloned EXCEPT ![j] = Absent],
                             Append(out, IF a.raised
                                         THEN [grade |-> 0, Status |-> "error"]
                                         ELSE [grade |-> calculate_grade(a), Status |-> "ready"]))

SingleWorker == serial_run(1, [d \in Dirs |-> Absent], <<>>)

AllFetched == \A j \in Jobs : fetch_outcome(repos[j].Repo) = "ok"

\* C14: when every fetch succeeds, the grade and status the pool returns for
\* each ID, with any number of workers and under every interleaving, are
\* those a single worker produces.
C14_Determinism ==
    (PoolReturned /\ AllFetched) =>
        \A j \in Jobs :
            /\ \E i \in DOMAIN returned : returned[i].ID = repos[j].ID
            /\ \A i \in DOMAIN returned :
                  returned[i].ID = repos[j].ID =>
                      /\ returned[i].grade = SingleWorker[j].grade
                      /\ returned[i].Status = SingleWorker[j].Status

\* Two workers, the second job finishing before the first.
C14_Witness ==
    /\ PoolReturned /\ AllFetched
    /\ max_workers > 1
    /\ Len(repos) > 1
    /\ returned[1].ID = 2
    /\ \E i \in DOMAIN returned : returned[i].grade = 3333

\* A job whose clone succeeded and whose analysis raised on one file.
ClassifierRaised(j) ==
    /\ fetch_outcome(repos[j].Repo) = "ok"
    /\ analyze_repository(Remote(repos[j].Repo).files).raised

HasErrorResult(j) ==
    \E i \in DOMAIN returned :
        returned[i] = [ID |-> repos[j].ID, grade |-> 0, Status |-> "error"]

C17_CleanupFailureAbsorbed ==
    \A j \in Jobs :
        rm_failed[j] =>
            /\ ~fut[j].exc
            /\ fut[j].value = SoloResult(repos[j])
            /\ j \in collected => \E i \in DOMAIN results : results[i] = SoloResult(repos[j])
            /\ PoolReturned => \E i \in DOMAIN returned : returned[i] = SoloResult(repos[j])

C17_Witness ==
    /\ PoolReturned
    /\ \E j \in Jobs :
         /\ rm_failed[j]
         /\ fs[created[j]].exists
         /\ \E i \in DOMAIN returned : returned[i] = ReadyResult(repos[j].ID, 3333)
    /\ \E j \in Jobs : rm_failed[j] /\ HasErrorResult(j)

\* C15: count_code_lines does not raise on a file whose content the parser
\* fails on: whenever the loop was left by an exception of count_code_lines,
\* the file was one that could not be opened, not one that failed to parse.
C15_FallbackNeverRaises ==
    loop.at = "raised" =>
        loop.files[loop.i].read \notin {"syntax_error", "parser_error"}

\* C18: every scratch directory a job has made lies under the scratch root
\* the worker was given.
C18_UnderScratchRoot ==
    \A j \in Jobs : created[j] # NoDir => scratch_root(created[j]) = temp_dir

\* C19: with no checkout tool the run aborts before anything is dispatched:
\* no job leaves Pending and no per-job result is recorded.
C19_AbortBeforeDispatch ==
    ~git_installed =>
        /\ \A j \in Jobs : JobState(j) = "Pending"
        /\ results = <<>>

\* C20: no two jobs of a run, at the same time or one after the other, have
\* the same scratch directory, a job works in the directory made for it, and
\* a directory disappears only in the cleanup of the job it was made for.
C20_ExclusiveScratch ==
    /\ [](\A j, k \in Jobs :
            (j # k /\ created[j] # NoDir /\ created[k] # NoDir) => created[j] # created[k])
    /\ [](\A j \in Jobs : repo_dir[j] \in {NoDir, created[j]})
    /\ [][\A d \in Dirs :
            (fs[d].exists /\ ~fs'[d].exists) =>
                \E j \in Jobs : /\ pc[j] = "finally" /\ pc'[j] = "done"
                                 /\ created[j] = d
                                 /\ \A k \in Jobs \ {j} : created[k] # d]_vars

C20_Witness ==
    /\ PoolReturned
    /\ \E j, k \in Jobs :
         /\ created[j] # NoDir /\ created[k] # NoDir /\ created[j] # created[k]
         /\ repo_dir[j] = created[j] /\ ~fs[created[j]].exists
         /\ fs[created[k]].exists

\* ------------------------------------------------------------ C21 .. C30
RECURSIVE SumCode(_)
SumCode(S) ==
    IF S = {} THEN 0
    ELSE LET k == CHOOSE x \in S : TRUE IN loop.files[k].code + SumCode(S \ {k})

\* C21: for files that parse, count_code_lines counts the lines of code only:
\* lines holding a documentation-string statement, like comment-only and
\* blank lines, add nothing to the total.
C21_DocstringsExcluded ==
    (\A k \in Visited : loop.files[k].read = "ok") =>
        loop.acc.total_lines = SumCode(Visited)

\* The file list with every file that failed in the fallback emptied.
Emptied(files) ==
    [k \in DOMAIN files |->
        IF files[k].read = "reopen_error" THEN File("ok", 0) ELSE files[k]]

\* C25: a file whose read fails inside the fallback counter never makes the
\* loop raise, and the metrics returned are those of the same repository with
\* an empty file in its place.
C25_FallbackReadFailureIsZero ==
    /\ loop.at = "raised" => loop.files[loop.i].read # "reopen_error"
    /\ \A k \in Visited : loop.files[k].read = "reopen_error" => CountOf(k) = 0
    /\ loop.at = "returned" => analysis = analyze_repository(Emptied(loop.files))

C25_Witness ==
    /\ loop.at = "returned"
    /\ \E k \in DOMAIN loop.files : loop.files[k].read = "reopen_error"
    /\ analysis.total_lines = 100
    /\ analysis.total_files = 2

\* What a file is to contribute when a parse failure stays inside the file:
\* its count when it parses, its fallback count when it does not.
Confined(f) == IF f.read = "ok" THEN linenos(f) ELSE count_lines_simple(f).count

RECURSIVE SumConfined(_)
SumConfined(S) ==
    IF S = {} THEN 0
    ELSE LET k == CHOOSE x \in S : TRUE
         IN  Confined(loop.files[k]) + SumConfined(S \ {k})

\* C23: in a repository all of whose files can be opened, a file that fails
\* to parse never ends the analysis: the loop is not left by an exception, and
\* the total returned is the fallback count of each failing file plus the
\* count of each of the others.
C23_ParseFailureConfined ==
    (\A k \in DOMAIN loop.files : loop.files[k].read # "os_error") =>
        /\ loop.at # "raised"
        /\ loop.at = "returned" => analysis.total_lines = SumConfined(DOMAIN loop.files)

\* C22: when a job's result is appended to the result list, no scratch
\* directory made for that job exists any more (a directory whose removal
\* rmtree attempted and failed is set aside: such failures are absorbed).
C22_CleanupBeforeResult ==
    [][\A j \in Jobs :
         (j \notin collected /\ j \in collected' /\ created[j] # NoDir /\ ~rm_failed[j])
             => ~fs[created[j]].exists]_vars

\* How often the ID of job j occurs in the result list.
Appended(j) == Cardinality({i \in DOMAIN results : results[i].ID = repos[j].ID})

\* C24: a worker writes its own future only, and only while it runs; the
\* result list changes only by the collecting thread appending the value of
\* one finished, not yet collected future; every collected job is in the list
\* once and no other job is in it.
C24_RaceFree ==
    /\ [][\A j \in Jobs :
            fut'[j] # fut[j] =>
                /\ pc[j] \in {"clone", "analyze"}
                /\ pc'[j] = "finally"
                /\ results' = results
                /\ \A k \in Jobs \ {j} : fut'[k] = fut[k] /\ pc'[k] = pc[k]]_vars
    /\ [][results' # results =>
            /\ mainpc = "collect"
            /\ pc' = pc
            /\ \E j \in Jobs \ collected :
                 /\ pc[j] = "done"
                 /\ collected' = collected \cup {j}
                 /\ results' = Append(results, fut[j].value)]_vars
    /\ [](\A j \in Jobs : Appended(j) = IF j \in collected THEN 1 ELSE 0)
    /\ [](Len(results) = Cardinality(collected))

\* Two workers, the second job collected before the first.
C24_Witness ==
    /\ mainpc = "collect"
    /\ max_workers = 2
    /\ collected = {1, 2}
    /\ Len(results) = 2
    /\ results[1].ID = 2 /\ results[2].ID = 1

\* A fetched repository without a line of code: no files, or files whose
\* count is 0.
NoCode(j) ==
    /\ fetch_outcome(repos[j].Repo) = "ok"
    /\ \A k \in DOMAIN Remote(repos[j].Repo).files :
         count_code_lines(Remote(repos[j].Repo).files[k]) = [raised |-> FALSE, count |-> 0]

ErrorHasZero(r) == r.Status = "error" => r.grade = 0

\* C28: every result with Status error has grade 0, and a fetched repository
\* without source files or without code lines ends as {grade 0, ready}.
C28_ErrorImpliesZeroNotConversely ==
    /\ \A j \in Jobs : ErrorHasZero(fut[j].value)
    /\ \A i \in DOMAIN results : ErrorHasZero(results[i])
    /\ \A i \in DOMAIN returned : ErrorHasZero(returned[i])
    /\ \A j \in Jobs :
         NoCode(j) =>
            /\ pc[j] \in {"finally", "done"} => fut[j].value = ReadyResult(repos[j].ID, 0)
            /\ PoolReturned => \E i \in DOMAIN returned : returned[i] = ReadyResult(repos[j].ID, 0)

C28_Witness ==
    /\ PoolReturned
    /\ \E j, k \in Jobs :
         /\ repos[j].Repo = "blank" /\ NoCode(j)
         /\ repos[k].Repo \in {"empty", "not_found"}
         /\ \E i \in DOMAIN returned : returned[i] = ReadyResult(repos[j].ID, 0)
         /\ \E i \in DOMAIN returned : returned[i].ID = repos[k].ID /\ returned[i].grade = 0

\* A fetched repository one of whose files cannot be opened.
HasUnreadable(j) ==
    /\ fetch_outcome(repos[j].Repo) = "ok"
    /\ \E k \in DOMAIN Remote(repos[j].Repo).files :
         Remote(repos[j].Repo).files[k].read = "os_error"

C26_AgentsInOrder ==
    /\ [](pipe.started = [i \in 1..Len(pipe.started) |-> i])
    /\ [](pipe.at = "in_agent" => Len(pipe.started) = pipe.k)
    /\ [](pipe.at = "loop" => Len(pipe.started) = pipe.k - 1)
    /\ [](pipe.failed # 0 => pipe.at = "raised" /\ Len(pipe.started) = pipe.failed)
    /\ [](pipe.at = "completed" => pipe.started = <<1, 2, 3, 4>> /\ pipe.failed = 0)
    /\ [][(pipe.at = "raised" /\ pipe' # pipe) =>
             (pipe'.runs = pipe.runs + 1 /\ pipe'.started = <<>>)]_vars

\* A second run that ended when its third agent raised.
C26_Witness ==
    /\ pipe.runs = 2
    /\ pipe.at = "raised"
    /\ pipe.failed = 3
    /\ pipe.started = <<1, 2, 3>>

\* C29: every draft Agent 4 makes in a run is for an ID whose row in the
\* analysis file, as the latest Agent 2 run that wrote it left it, is ready.
C29_DraftsOnlyForReady ==
    \A id \in pipe.drafts : pipe.excel2[id] = "ready"

====
